---- MODULE Spec2Model ----
(***************************************************************************)
(* State-machine model of GridLayoutPage (src/unnamed/part_000): the       *)
(* widget store, the dragging-widget state, the document-level resize      *)
(* listeners, and the handlers that change them.                           *)
(*                                                                         *)
(* Text (names, formulas, typed input) is a sequence of one-character      *)
(* strings.  Pointer coordinates are pixels relative to the origin of the  *)
(* element whose getBoundingClientRect() the handler reads.                *)
(***************************************************************************)
EXTENDS Integers, Sequences, FiniteSets, TLC

VARIABLES
    widgets,         \* useState<Widget[]>: the widget store, in order
    draggingWidget,  \* useState<DraggingWidget | null>: <<>> is null, <<d>> is d
    listeners,       \* mousemove/mouseup pairs registered on document, in order
    now,             \* the value the next Date.now() returns
    gesture,         \* what the pointer is doing: "idle", "drag", "foreign", "resize"
    pointer,         \* where the pointer is while a button is down on a resize handle
    evaluated,       \* the last evaluateFormula call: its arguments and its outcome
    last             \* the last event delivered: its name and its inputs

vars == <<widgets, draggingWidget, listeners, now, gesture, pointer, evaluated, last>>

-----------------------------------------------------------------------------
(* Program constants *)

GRID_ROWS == 10
GRID_COLS == 8
CELL_SIZE == 100

SIMPLE_NAMES ==
    << <<"c","a","t">>, <<"d","o","g">>, <<"t","r","e","e">>, <<"b","i","r","d">>,
       <<"f","i","s","h">>, <<"s","t","a","r">>, <<"m","o","o","n">>, <<"s","u","n">>,
       <<"l","e","a","f">>, <<"c","l","o","u","d">>, <<"r","a","i","n">>, <<"w","i","n","d">> >>

\* The `|| 'x'` of generateRandomName.
FallbackName == <<"x">>

\* The width and height floors of handleMouseMove.
MinWidth == 2
MinHeight == 1

\* The score range of the score input and of generateRandomScore.
MinScore == 0
MaxScore == 100
ScoreOutcomes == 101

-----------------------------------------------------------------------------
(* Bounds of the model *)

\* The store holds at most this many widgets (a drop that would add one more
\* is not taken).
MaxWidgets == 2

\* The same for the runs that start from the grid with every name of
\* SIMPLE_NAMES in use.
MaxWidgetsFull == 14

\* At most this many widgets are ever created (the clock readings that
\* become ids are 1 .. MaxCreated).
MaxCreated == 2

\* At most this many listener pairs are registered at a time.
MaxListeners == 2

\* Math.random() returns u / RandomUnits for an integer u in 0 .. RandomUnits-1.
RandomUnits == 1212

\* The longest formula drawn from FormulaAlphabet.
MaxFormulaLen == 3

\* The longest formula a variable button is let to build.
MaxInsertedLen == 7

-----------------------------------------------------------------------------
(* JavaScript numbers and Math *)

\* The not-a-number value, kept apart from every number the model computes.
NaN == -1000000

MathMax(a, b) == IF a = NaN \/ b = NaN THEN NaN ELSE IF a >= b THEN a ELSE b

MathMin(a, b) == IF a = NaN \/ b = NaN THEN NaN ELSE IF a <= b THEN a ELSE b

\* Math.floor(n / d) for integers n and d > 0.
FloorDiv(n, d) == n \div d

\* Math.floor(Math.random() * n) when Math.random() returned u / RandomUnits.
RandomFloor(u, n) == (u * n) \div RandomUnits

-----------------------------------------------------------------------------
(* Text *)

LowerLetters ==
    <<"a","b","c","d","e","f","g","h","i","j","k","l","m",
      "n","o","p","q","r","s","t","u","v","w","x","y","z">>

UpperLetters ==
    <<"A","B","C","D","E","F","G","H","I","J","K","L","M",
      "N","O","P","Q","R","S","T","U","V","W","X","Y","Z">>

Digits == <<"0","1","2","3","4","5","6","7","8","9">>

Range(s) == {s[i] : i \in 1..Len(s)}

IsLower(c) == c \in Range(LowerLetters)

IsUpper(c) == c \in Range(UpperLetters)

IsDigit(c) == c \in Range(Digits)

IsSpace(c) == c \in {" ", "\t", "\n"}

DigitValue(c) == (CHOOSE i \in 1..Len(Digits) : Digits[i] = c) - 1

\* One character of String.prototype.toLowerCase.
LowerChar(c) ==
    IF IsUpper(c) THEN LowerLetters[CHOOSE i \in 1..Len(UpperLetters) : UpperLetters[i] = c]
    ELSE c

toLowerCase(s) == [i \in 1..Len(s) |-> LowerChar(s[i])]

\* s.replace(/[^a-z]/g, '')
StripNonLower(s) == SelectSeq(s, IsLower)

\* e.target.value.toLowerCase().replace(/[^a-z]/g, '')
SanitizeName(text) == StripNonLower(toLowerCase(text))

\* The index of the first character of s at or after i that is not whitespace.
RECURSIVE SkipSpace(_, _)
SkipSpace(s, i) == IF i <= Len(s) /\ IsSpace(s[i]) THEN SkipSpace(s, i + 1) ELSE i

\* The value of the digits of s from i on, up to the first non-digit, after acc.
RECURSIVE DigitRun(_, _, _)
DigitRun(s, i, acc) ==
    IF i <= Len(s) /\ IsDigit(s[i]) THEN DigitRun(s, i + 1, acc * 10 + DigitValue(s[i]))
    ELSE acc

\* parseInt(text, 10): leading whitespace, an optional sign, then the longest
\* run of decimal digits; NaN when there is no digit there.
parseInt(text) ==
    LET i == SkipSpace(text, 1)
        signed == i <= Len(text) /\ text[i] \in {"+", "-"}
        j == IF signed THEN i + 1 ELSE i
    IN  IF j > Len(text) \/ ~IsDigit(text[j]) THEN NaN
        ELSE IF signed /\ text[i] = "-" THEN 0 - DigitRun(text, j, 0)
        ELSE DigitRun(text, j, 0)

-----------------------------------------------------------------------------
(* Widgets, library items and the dragging widget *)

Null == <<>>

Some(v) == <<v>>

\* `widget-${n}`
WidgetId(n) == <<"widget", n>>

\* libraryItems: the templates of the widget library.  A field a template
\* does not define (formula of the score item) is the empty text.
ScoreItem ==
    [id |-> <<"score", 0>>, width |-> 2, height |-> 1, title |-> "Score",
     type |-> "score", formula |-> <<>>]

CalcItem ==
    [id |-> <<"calc", 0>>, width |-> 4, height |-> 2, title |-> "Calculator",
     type |-> "calculator", formula |-> <<>>]

libraryItems == <<ScoreItem, CalcItem>>

\* generateRandomScore, when Math.random() returned u / RandomUnits.
generateRandomScore(u) == RandomFloor(u, ScoreOutcomes)

\* generateRandomName(ws), when Math.random() returned u / RandomUnits.
generateRandomName(ws, u) ==
    LET usedNames == {ws[i].name : i \in 1..Len(ws)}
        availableNames == SelectSeq(SIMPLE_NAMES, LAMBDA n : n \notin usedNames)
        k == RandomFloor(u, Len(availableNames)) + 1
    IN  IF k \in 1..Len(availableNames) THEN availableNames[k] ELSE FallbackName

\* The rectangle test of handleDragOver and handleDrop: the rectangle at
\* (x, y) of size (w, h) against the rectangle of the stored widget e.
RectOverlaps(x, y, w, h, e) ==
    /\ x < e.x + e.width
    /\ x + w > e.x
    /\ y < e.y + e.height
    /\ y + h > e.y

\* Math.max(0, Math.min(Math.floor((p - offset) / CELL_SIZE), limit - size))
ClampCell(p, offset, limit, size) ==
    MathMax(0, MathMin(FloorDiv(p - offset, CELL_SIZE), limit - size))

\* handleDragOver's wouldOverlap.
DragOverWouldOverlap(ws, d, x, y) ==
    \E i \in 1..Len(ws) :
        ws[i].id # d.id /\ RectOverlaps(x, y, d.width, d.height, ws[i])

\* Mutant of DropWouldOverlap: only a widget at the very same cell counts.
DropWouldOverlapSameCell(ws, nw, x, y) ==
    \E i \in 1..Len(ws) : x = ws[i].x /\ y = ws[i].y

\* handleDrop's wouldOverlap.
DropWouldOverlap(ws, nw, x, y) ==
    \E i \in 1..Len(ws) : RectOverlaps(x, y, nw.width, nw.height, ws[i])

-----------------------------------------------------------------------------
(* Initial state: the component as constructed *)

NoEvaluation == [formula |-> <<>>, variables |-> <<>>, value |-> <<>>, built |-> FALSE]

Init ==
    /\ widgets = <<>>
    /\ draggingWidget = Null
    /\ listeners = <<>>
    /\ now = 1
    /\ gesture = "idle"
    /\ pointer = Null
    /\ evaluated = NoEvaluation
    /\ last = [op |-> "init", a |-> <<>>]

-----------------------------------------------------------------------------
(* Drag and drop *)

\* The object handleDragStart stores for the item or widget it is given.  Of
\* the copied fields only those a handler reads later are kept.
Dragging(item, isNew, offX, offY) ==
    [id |-> item.id, type |-> item.type, title |-> item.title, formula |-> item.formula,
     width |-> item.width, height |-> item.height,
     isNew |-> isNew, offsetX |-> offX, offsetY |-> offY]

\* handleDragStart(e, item, true) on a library item; (offX, offY) is the
\* pointer's place inside the dragged element.
DragStartNew(k, offX, offY) ==
    /\ gesture = "idle"
    /\ k \in 1..Len(libraryItems)
    /\ draggingWidget' = Some(Dragging(libraryItems[k], TRUE, offX, offY))
    /\ gesture' = "drag"
    /\ last' = [op |-> "dragStartNew", a |-> <<k, offX, offY>>]
    /\ UNCHANGED <<widgets, listeners, now, evaluated, pointer>>

\* handleDragStart(e, widget) on the i-th widget of the store.
DragStartWidget(i, offX, offY) ==
    /\ gesture = "idle"
    /\ i \in 1..Len(widgets)
    /\ draggingWidget' = Some(Dragging(widgets[i], FALSE, offX, offY))
    /\ gesture' = "drag"
    /\ last' = [op |-> "dragStartWidget", a |-> <<i, offX, offY>>]
    /\ UNCHANGED <<widgets, listeners, now, evaluated, pointer>>

\* A drag that handleDragStart never sees starts (selected text, a link, a
\* file from outside the page): no handler runs.
ForeignDragStart ==
    /\ gesture = "idle"
    /\ gesture' = "foreign"
    /\ last' = [op |-> "foreignDragStart", a |-> <<>>]
    /\ UNCHANGED <<widgets, draggingWidget, listeners, now, evaluated, pointer>>

\* The candidate cell of handleDragOver and handleDrop for the pointer at
\* (px, py) from the grid's origin.
TargetX(d, px) == ClampCell(px, d.offsetX, GRID_COLS, d.width)

TargetY(d, py) == ClampCell(py, d.offsetY, GRID_ROWS, d.height)

\* The store handleDragOver leaves.
DragOverStore(ws, dw, px, py) ==
    IF dw = Null THEN ws
    ELSE LET d == dw[1]
             x == TargetX(d, px)
             y == TargetY(d, py)
         IN  IF ~DragOverWouldOverlap(ws, d, x, y) /\ ~d.isNew
             THEN [i \in 1..Len(ws) |->
                      IF ws[i].id = d.id THEN [ws[i] EXCEPT !.x = x, !.y = y] ELSE ws[i]]
             ELSE ws

\* handleDragOver with the pointer at (px, py) from the grid's origin.
DragOver(px, py) ==
    /\ gesture \in {"drag", "foreign"}
    /\ widgets' = DragOverStore(widgets, draggingWidget, px, py)
    /\ last' = [op |-> "dragOver", a |-> <<px, py>>]
    /\ UNCHANGED <<draggingWidget, listeners, now, gesture, evaluated, pointer>>

\* handleDrop's newWidget; uName and uScore are the two Math.random() draws.
NewWidget(ws, d, x, y, t, uName, uScore) ==
    [id |-> WidgetId(t), x |-> x, y |-> y, width |-> d.width, height |-> d.height,
     type |-> d.type, title |-> d.title, formula |-> d.formula,
     name |-> IF d.type = "score" THEN generateRandomName(ws, uName) ELSE <<>>,
     score |-> IF d.type = "score" THEN generateRandomScore(uScore) ELSE 0]

\* Mutant of DropStore: a drop of an existing widget moves it to the cell
\* under the pointer.
DropStoreMovesExisting(ws, dw, px, py, t, uName, uScore) ==
    IF dw = Null THEN ws
    ELSE LET d == dw[1]
             x == TargetX(d, px)
             y == TargetY(d, py)
             newWidget == NewWidget(ws, d, x, y, t, uName, uScore)
         IN  IF d.isNew
             THEN (IF ~DropWouldOverlap(ws, newWidget, x, y) THEN Append(ws, newWidget) ELSE ws)
             ELSE [i \in 1..Len(ws) |->
                      IF ws[i].id = d.id THEN [ws[i] EXCEPT !.x = x, !.y = y] ELSE ws[i]]

\* The store handleDrop leaves when Date.now() returns t.
DropStore(ws, dw, px, py, t, uName, uScore) ==
    IF dw = Null THEN ws
    ELSE LET d == dw[1]
             x == TargetX(d, px)
             y == TargetY(d, py)
             newWidget == NewWidget(ws, d, x, y, t, uName, uScore)
         IN  IF d.isNew /\ ~DropWouldOverlap(ws, newWidget, x, y)
             THEN Append(ws, newWidget)
             ELSE ws

\* handleDrop with the pointer at (px, py) from the grid's origin.  The clock
\* has moved on when the next widget is created: a drag gesture lies between
\* two creations.
Drop(px, py, uName, uScore) ==
    /\ gesture \in {"drag", "foreign"}
    /\ widgets' = DropStore(widgets, draggingWidget, px, py, now, uName, uScore)
    /\ now' = IF Len(widgets') > Len(widgets) THEN now + 1 ELSE now
    /\ draggingWidget' = Null
    /\ gesture' = "idle"
    /\ last' = [op |-> "drop", a |-> <<px, py, uName, uScore>>,
                dw |-> draggingWidget, n |-> Len(widgets)]
    /\ UNCHANGED <<listeners, evaluated, pointer>>

\* The drag ends without a drop on the grid (released elsewhere, or
\* cancelled): the component registers no handler for it.
DragEnd ==
    /\ gesture \in {"drag", "foreign"}
    /\ gesture' = "idle"
    /\ last' = [op |-> "dragEnd", a |-> <<>>]
    /\ UNCHANGED <<widgets, draggingWidget, listeners, now, evaluated, pointer>>

\* Date.now() is the system's wall-clock time: between two calls the system
\* may set it back (a clock synchronisation, a change of the system time), so
\* that a later call returns the value t an earlier one returned.
ClockSetBack(t) ==
    /\ t >= 1 /\ t < now
    /\ now' = t
    /\ last' = [op |-> "clockSetBack", a |-> <<t>>]
    /\ UNCHANGED <<widgets, draggingWidget, listeners, gesture, evaluated, pointer>>

-----------------------------------------------------------------------------
(* Resize *)

\* What the closures handleMouseMove and handleMouseUp of one handleResize
\* call captured: the widget object of that render (id, x, y) and the start
\* values.
Listener(w, sx, sy) ==
    [id |-> w.id, x |-> w.x, y |-> w.y, startWidth |-> w.width,
     startHeight |-> w.height, startX |-> sx, startY |-> sy]

\* Mutant of NewWidth: the Math.max(2, ...) floor is missing.
NewWidthNoFloor(l, cx) ==
    MathMin(l.startWidth + FloorDiv(cx - l.startX, CELL_SIZE), GRID_COLS - l.x)

\* handleMouseMove's newWidth and newHeight for the pointer at (cx, cy).
NewWidth(l, cx) ==
    MathMax(MinWidth, MathMin(l.startWidth + FloorDiv(cx - l.startX, CELL_SIZE), GRID_COLS - l.x))

NewHeight(l, cy) ==
    MathMax(MinHeight, MathMin(l.startHeight + FloorDiv(cy - l.startY, CELL_SIZE), GRID_ROWS - l.y))

\* One handleMouseMove: setWidgets(prev => prev.map(...)).
ResizeStore(ws, l, cx, cy) ==
    [i \in 1..Len(ws) |->
        IF ws[i].id = l.id
        THEN [ws[i] EXCEPT !.width = NewWidth(l, cx), !.height = NewHeight(l, cy)]
        ELSE ws[i]]

\* The mousemove listeners run in the order of their registration, each a
\* functional update of the store the one before it left.
RECURSIVE RunMouseMove(_, _, _, _)
RunMouseMove(ws, ls, cx, cy) ==
    IF ls = <<>> THEN ws
    ELSE RunMouseMove(ResizeStore(ws, Head(ls), cx, cy), Tail(ls), cx, cy)

\* Mutant of ResizeListeners: the early return for calculators is missing.
ResizeListenersAnyType(ls, w, sx, sy) == Append(ls, Listener(w, sx, sy))

\* The listeners handleResize(e, w) leaves registered.
ResizeListeners(ls, w, sx, sy) ==
    IF w.type = "calculator" THEN ls ELSE Append(ls, Listener(w, sx, sy))

\* handleResize(e, widgets[i]) with the pointer at (sx, sy): a mouse button
\* goes down on the widget's resize handle.  With a button already down,
\* the pointer is where the last mouse event left it.
StartResize(i, sx, sy) ==
    /\ gesture \in {"idle", "resize"}
    /\ gesture = "resize" => pointer = Some(<<sx, sy>>)
    /\ pointer' = Some(<<sx, sy>>)
    /\ i \in 1..Len(widgets)
    /\ listeners' = ResizeListeners(listeners, widgets[i], sx, sy)
    /\ gesture' = "resize"
    /\ last' = [op |-> "startResize", a |-> <<i, sx, sy>>]
    /\ UNCHANGED <<widgets, draggingWidget, now, evaluated>>

\* A mousemove event on document with the pointer at (cx, cy).
MouseMove(cx, cy) ==
    /\ gesture \in {"idle", "resize"}
    /\ widgets' = RunMouseMove(widgets, listeners, cx, cy)
    /\ pointer' = IF gesture = "resize" THEN Some(<<cx, cy>>) ELSE pointer
    /\ last' = [op |-> "mouseMove", a |-> <<cx, cy>>]
    /\ UNCHANGED <<draggingWidget, listeners, now, gesture, evaluated>>

\* Mutant of MouseUpListeners: only the pair registered last is removed.
MouseUpListenersLatestOnly(ls) == IF ls = <<>> THEN ls ELSE SubSeq(ls, 1, Len(ls) - 1)

\* The listeners a mouseup event leaves registered: every handleMouseUp
\* removes its own pair.
MouseUpListeners(ls) == SelectSeq(ls, LAMBDA l : FALSE)

\* A mouseup event on document.
MouseUp ==
    /\ gesture = "resize"
    /\ listeners' = MouseUpListeners(listeners)
    /\ gesture' = "idle"
    /\ pointer' = Null
    /\ last' = [op |-> "mouseUp", a |-> <<>>]
    /\ UNCHANGED <<widgets, draggingWidget, now, evaluated>>

-----------------------------------------------------------------------------
(* Delete and the field edits: clicks and typing, delivered between pointer
   gestures *)

\* widgets.filter(w => w.id !== widgetId)
DeleteStore(ws, id) == SelectSeq(ws, LAMBDA w : w.id # id)

\* handleDelete(widgets[i].id)
Delete(i) ==
    /\ gesture = "idle"
    /\ i \in 1..Len(widgets)
    /\ widgets' = DeleteStore(widgets, widgets[i].id)
    /\ last' = [op |-> "delete", a |-> <<i>>]
    /\ UNCHANGED <<draggingWidget, listeners, now, gesture, evaluated, pointer>>

\* The test of the name input's onChange: no widget other than the edited
\* one (by id) has the name.
NameIsFree(ws, id, name) == \A i \in 1..Len(ws) : ws[i].id = id \/ ws[i].name # name

\* Mutant of EditNameStore: the typed text is compared, not the sanitized name.
EditNameStoreRawTest(ws, w, text) ==
    LET name == SanitizeName(text)
    IN  IF NameIsFree(ws, w.id, text)
        THEN [i \in 1..Len(ws) |-> IF ws[i].id = w.id THEN [ws[i] EXCEPT !.name = name] ELSE ws[i]]
        ELSE ws

\* The store the name input's onChange of widget w leaves for the typed text.
EditNameStore(ws, w, text) ==
    LET name == SanitizeName(text)
    IN  IF NameIsFree(ws, w.id, name)
        THEN [i \in 1..Len(ws) |-> IF ws[i].id = w.id THEN [ws[i] EXCEPT !.name = name] ELSE ws[i]]
        ELSE ws

\* onChange of the name input of the i-th widget (a score widget: a
\* calculator renders no name input).
EditName(i, text) ==
    /\ gesture = "idle"
    /\ i \in 1..Len(widgets)
    /\ widgets[i].type = "score"
    /\ widgets' = EditNameStore(widgets, widgets[i], text)
    /\ last' = [op |-> "editName", a |-> <<i, text>>]
    /\ UNCHANGED <<draggingWidget, listeners, now, gesture, evaluated, pointer>>

\* Math.max(0, Math.min(100, parseInt(e.target.value, 10)))
ClampScore(text) == MathMax(MinScore, MathMin(MaxScore, parseInt(text)))

\* widgets.map(w => w.id === id ? { ...w, score } : w)
SetScore(ws, id, score) ==
    [i \in 1..Len(ws) |-> IF ws[i].id = id THEN [ws[i] EXCEPT !.score = score] ELSE ws[i]]

\* onChange of the score input of the i-th widget (a score widget).
EditScore(i, text) ==
    /\ gesture = "idle"
    /\ i \in 1..Len(widgets)
    /\ widgets[i].type = "score"
    /\ widgets' = SetScore(widgets, widgets[i].id, ClampScore(text))
    /\ last' = [op |-> "editScore", a |-> <<i, text>>]
    /\ UNCHANGED <<draggingWidget, listeners, now, gesture, evaluated, pointer>>

\* onClick of the Random button of the i-th widget (a score widget); u is
\* the Math.random() draw.
RandomizeScore(i, u) ==
    /\ gesture = "idle"
    /\ i \in 1..Len(widgets)
    /\ widgets[i].type = "score"
    /\ widgets' = SetScore(widgets, widgets[i].id, generateRandomScore(u))
    /\ last' = [op |-> "randomizeScore", a |-> <<i, u>>]
    /\ UNCHANGED <<draggingWidget, listeners, now, gesture, evaluated, pointer>>

\* widgets.map(w => w.id === id ? { ...w, formula } : w)
SetFormula(ws, id, formula) ==
    [i \in 1..Len(ws) |-> IF ws[i].id = id THEN [ws[i] EXCEPT !.formula = formula] ELSE ws[i]]

\* onChange of the formula textarea of the i-th widget (a calculator).
EditFormula(i, text) ==
    /\ gesture = "idle"
    /\ i \in 1..Len(widgets)
    /\ widgets[i].type = "calculator"
    /\ widgets' = SetFormula(widgets, widgets[i].id, text)
    /\ last' = [op |-> "editFormula", a |-> <<i, text>>]
    /\ UNCHANGED <<draggingWidget, listeners, now, gesture, evaluated, pointer>>

-----------------------------------------------------------------------------
(* evaluateFormula *)

\* The return value of the two `return 'Error'`.
ErrorMarker == <<"E","r","r","o","r">>

\* [a-z0-9\s+\-*/().] under the i flag.
IsAllowedChar(c) ==
    \/ IsLower(c) \/ IsUpper(c) \/ IsDigit(c) \/ IsSpace(c)
    \/ c \in {"+", "-", "*", "/", "(", ")", "."}

\* /^[a-z0-9\s+\-*/().]+$/i.test(formula)
WhitelistTest(formula) ==
    /\ Len(formula) > 0
    /\ \A i \in 1..Len(formula) : IsAllowedChar(formula[i])

(* The function body `return ${formula}` is read as JavaScript.  The model
   reads the part of the language made of decimal integer literals,
   identifiers, the operators + - * /, parentheses, spaces and tabs; Modelled
   tells whether a formula stays inside it.  Outside it are: line breaks
   (automatic semicolon insertion), ".", the two-character operators ++ -- **,
   the comment openers // and /*, a digit next to a letter (exponents,
   prefixes, suffixes), a literal of several digits that starts with 0
   (legacy octal), and a "/" where an operand is expected (a regular
   expression literal). *)

IsLetter(c) == IsLower(c) \/ IsUpper(c)

IsBlank(c) == c \in {" ", "\t"}

\* The end of the run of characters satisfying Is(_) that starts at i.
RECURSIVE DigitsEnd(_, _)
DigitsEnd(s, i) == IF i <= Len(s) /\ IsDigit(s[i]) THEN DigitsEnd(s, i + 1) ELSE i

RECURSIVE WordEnd(_, _)
WordEnd(s, i) ==
    IF i <= Len(s) /\ (IsLetter(s[i]) \/ IsDigit(s[i])) THEN WordEnd(s, i + 1) ELSE i

\* The tokens of s from i on.  A token is a number [t |-> "num", n], an
\* identifier [t |-> "id", name], or a punctuator [t |-> "+"] and the like;
\* [t |-> "other"] stands for text outside the modelled part.
RECURSIVE Tokens(_, _)
Tokens(s, i) ==
    IF i > Len(s) THEN <<>>
    ELSE LET c == s[i]
             two == IF i < Len(s) THEN <<c, s[i + 1]>> ELSE <<c>>
         IN  IF IsBlank(c) THEN Tokens(s, i + 1)
             ELSE IF IsDigit(c)
             THEN LET j == DigitsEnd(s, i)
                      plain == /\ (j > Len(s) \/ ~(IsLetter(s[j]) \/ s[j] = "."))
                               /\ (j = i + 1 \/ c # "0")
                  IN  IF plain
                      THEN <<[t |-> "num", n |-> DigitRun(s, i, 0)]>> \o Tokens(s, j)
                      ELSE <<[t |-> "other"]>>
             ELSE IF IsLetter(c)
             THEN LET j == WordEnd(s, i)
                  IN  <<[t |-> "id", name |-> SubSeq(s, i, j - 1)]>> \o Tokens(s, j)
             ELSE IF two \in { <<"+","+">>, <<"-","-">>, <<"*","*">>, <<"/","/">>, <<"/","*">> }
             THEN <<[t |-> "other"]>>
             ELSE IF c \in {"+", "-", "*", "/", "(", ")"}
             THEN <<[t |-> c]>> \o Tokens(s, i + 1)
             ELSE <<[t |-> "other"]>>

(* JavaScript numbers, as far as the formulas need them: a rational n / d
   with d > 0 (negz tells +0 from -0 when n = 0), an infinity, or NaN.  The
   program computes in binary floating point: exact tells whether the value
   and everything it was computed from is a binary fraction, which the
   program's arithmetic then represents without rounding. *)

RECURSIVE Gcd(_, _)
Gcd(a, b) == IF b = 0 THEN a ELSE Gcd(b, a % b)

Abs(n) == IF n < 0 THEN 0 - n ELSE n

RECURSIVE IsPowerOfTwo(_)
IsPowerOfTwo(d) == d = 1 \/ (d % 2 = 0 /\ IsPowerOfTwo(d \div 2))

IsBinaryFraction(n, d) == IsPowerOfTwo(d \div Gcd(Abs(n), d))

Num(n, d, negz, exact) ==
    [k |-> "num", n |-> n, d |-> d, negz |-> (n = 0 /\ negz),
     exact |-> (exact /\ IsBinaryFraction(n, d))]

Inf(neg) == [k |-> "inf", neg |-> neg]

NotANumber == [k |-> "nan"]

IsNegative(v) == IF v.k = "inf" THEN v.neg ELSE v.n < 0 \/ (v.n = 0 /\ v.negz)

IsZero(v) == v.k = "num" /\ v.n = 0

\* -v
Negate(v) ==
    IF v.k = "nan" THEN v
    ELSE IF v.k = "inf" THEN Inf(~v.neg)
    ELSE Num(0 - v.n, v.d, ~v.negz, v.exact)

\* a + b
Plus(a, b) ==
    IF a.k = "nan" \/ b.k = "nan" THEN NotANumber
    ELSE IF a.k = "inf" /\ b.k = "inf" THEN (IF a.neg = b.neg THEN a ELSE NotANumber)
    ELSE IF a.k = "inf" THEN a
    ELSE IF b.k = "inf" THEN b
    ELSE Num(a.n * b.d + b.n * a.d, a.d * b.d,
             IsZero(a) /\ IsZero(b) /\ a.negz /\ b.negz, a.exact /\ b.exact)

\* a - b
Minus(a, b) == Plus(a, Negate(b))

\* a * b
Times(a, b) ==
    IF a.k = "nan" \/ b.k = "nan" THEN NotANumber
    ELSE IF (a.k = "inf" /\ IsZero(b)) \/ (IsZero(a) /\ b.k = "inf") THEN NotANumber
    ELSE IF a.k = "inf" \/ b.k = "inf" THEN Inf(IsNegative(a) # IsNegative(b))
    ELSE Num(a.n * b.n, a.d * b.d, IsNegative(a) # IsNegative(b), a.exact /\ b.exact)

\* a / b
Divide(a, b) ==
    IF a.k = "nan" \/ b.k = "nan" THEN NotANumber
    ELSE IF a.k = "inf" /\ b.k = "inf" THEN NotANumber
    ELSE IF a.k = "inf" THEN Inf(IsNegative(a) # IsNegative(b))
    ELSE IF b.k = "inf" THEN Num(0, 1, IsNegative(a) # IsNegative(b), TRUE)
    ELSE IF IsZero(b)
    THEN (IF IsZero(a) THEN NotANumber ELSE Inf(IsNegative(a) # IsNegative(b)))
    ELSE IF b.n > 0
    THEN Num(a.n * b.d, a.d * b.n, IsNegative(a) # IsNegative(b), a.exact /\ b.exact)
    ELSE Num(0 - a.n * b.d, 0 - a.d * b.n, IsNegative(a) # IsNegative(b),
             a.exact /\ b.exact)

\* Words that can be neither a parameter name nor a variable in the body.
ReservedWords ==
    {
      <<"b","r","e","a","k">>, <<"c","a","s","e">>, <<"c","a","t","c","h">>,
      <<"c","l","a","s","s">>, <<"c","o","n","s","t">>,
      <<"c","o","n","t","i","n","u","e">>,
      <<"d","e","b","u","g","g","e","r">>, <<"d","e","f","a","u","l","t">>,
      <<"d","e","l","e","t","e">>, <<"d","o">>, <<"e","l","s","e">>,
      <<"e","n","u","m">>, <<"e","x","p","o","r","t">>,
      <<"e","x","t","e","n","d","s">>, <<"f","a","l","s","e">>,
      <<"f","i","n","a","l","l","y">>, <<"f","o","r">>,
      <<"f","u","n","c","t","i","o","n">>, <<"i","f">>,
      <<"i","m","p","o","r","t">>, <<"i","n">>,
      <<"i","n","s","t","a","n","c","e","o","f">>, <<"n","e","w">>,
      <<"n","u","l","l">>, <<"r","e","t","u","r","n">>,
      <<"s","u","p","e","r">>, <<"s","w","i","t","c","h">>,
      <<"t","h","i","s">>, <<"t","h","r","o","w">>, <<"t","r","u","e">>,
      <<"t","r","y">>, <<"t","y","p","e","o","f">>, <<"v","a","r">>,
      <<"v","o","i","d">>, <<"w","h","i","l","e">>, <<"w","i","t","h">> }

\* Names the global object binds in a browser; a formula that reads one of
\* them is outside the modelled part.
GlobalNames ==
    {
      <<"n","a","m","e">>, <<"l","e","n","g","t","h">>,
      <<"s","t","a","t","u","s">>, <<"t","o","p">>, <<"s","e","l","f">>,
      <<"w","i","n","d","o","w">>, <<"p","a","r","e","n","t">>,
      <<"f","r","a","m","e","s">>, <<"d","o","c","u","m","e","n","t">>,
      <<"l","o","c","a","t","i","o","n">>, <<"h","i","s","t","o","r","y">>,
      <<"n","a","v","i","g","a","t","o","r">>, <<"s","c","r","e","e","n">>,
      <<"e","v","e","n","t">>, <<"o","r","i","g","i","n">>,
      <<"c","l","o","s","e","d">>, <<"o","p","e","n","e","r">>,
      <<"a","l","e","r","t">>, <<"c","o","n","f","i","r","m">>,
      <<"p","r","o","m","p","t">>, <<"e","v","a","l">>,
      <<"i","s","N","a","N">>, <<"i","s","F","i","n","i","t","e">>,
      <<"p","a","r","s","e","I","n","t">>,
      <<"p","a","r","s","e","F","l","o","a","t">>, <<"N","a","N">>,
      <<"I","n","f","i","n","i","t","y">>,
      <<"u","n","d","e","f","i","n","e","d">>, <<"N","u","m","b","e","r">>,
      <<"S","t","r","i","n","g">>, <<"B","o","o","l","e","a","n">>,
      <<"O","b","j","e","c","t">>, <<"A","r","r","a","y">>,
      <<"F","u","n","c","t","i","o","n">>, <<"M","a","t","h">>,
      <<"D","a","t","e">>, <<"J","S","O","N">>, <<"e","s","c","a","p","e">>,
      <<"u","n","e","s","c","a","p","e">> }

\* The variables object: a sequence of [name, value] in key order.
HasKey(variables, name) == \E i \in 1..Len(variables) : variables[i].name = name

ValueOf(variables, name) ==
    variables[CHOOSE i \in 1..Len(variables) : variables[i].name = name].value

\* Whether a "/" at position i of the tokens stands where an operand is
\* expected.
SlashAsOperand(ts, i) ==
    /\ ts[i].t = "/"
    /\ (i = 1 \/ ts[i - 1].t \in {"+", "-", "*", "/", "("})

\* Whether the formula, read with these parameters, is inside the modelled
\* part of the language.
Modelled(formula, variables) ==
    LET ts == Tokens(formula, 1)
    IN  \A i \in 1..Len(ts) :
            /\ ts[i].t # "other"
            /\ ~SlashAsOperand(ts, i)
            /\ ts[i].t = "id" =>
                   /\ ts[i].name \notin ReservedWords
                   /\ (ts[i].name \in GlobalNames => HasKey(variables, ts[i].name))

\* A parse that failed: the SyntaxError of `new Function`, or the exception
\* thrown by the call.
Thrown == [ok |-> FALSE]

Parsed(v, next) == [ok |-> TRUE, v |-> v, next |-> next]

RECURSIVE ParseExpression(_, _, _)
RECURSIVE ParseSum(_, _, _)
RECURSIVE ParseTerm(_, _, _)
RECURSIVE ParseProduct(_, _, _)
RECURSIVE ParseUnary(_, _, _)

\* A literal, a variable (a ReferenceError when it is not bound), or a
\* parenthesised expression.
ParsePrimary(ts, i, variables) ==
    IF i > Len(ts) THEN Thrown
    ELSE IF ts[i].t = "num" THEN Parsed(Num(ts[i].n, 1, FALSE, TRUE), i + 1)
    ELSE IF ts[i].t = "id"
    THEN IF HasKey(variables, ts[i].name)
         THEN Parsed(Num(ValueOf(variables, ts[i].name), 1, FALSE, TRUE), i + 1)
         ELSE Thrown
    ELSE IF ts[i].t = "("
    THEN LET r == ParseExpression(ts, i + 1, variables)
         IN  IF r.ok /\ r.next <= Len(ts) /\ ts[r.next].t = ")"
             THEN Parsed(r.v, r.next + 1)
             ELSE Thrown
    ELSE Thrown

ParseUnary(ts, i, variables) ==
    IF i <= Len(ts) /\ ts[i].t \in {"+", "-"}
    THEN LET r == ParseUnary(ts, i + 1, variables)
         IN  IF ~r.ok THEN Thrown
             ELSE IF ts[i].t = "-" THEN Parsed(Negate(r.v), r.next)
             ELSE r
    ELSE ParsePrimary(ts, i, variables)

\* The factors after the product r, left to right.
ParseProduct(ts, r, variables) ==
    IF r.ok /\ r.next <= Len(ts) /\ ts[r.next].t \in {"*", "/"}
    THEN LET f == ParseUnary(ts, r.next + 1, variables)
         IN  IF ~f.ok THEN Thrown
             ELSE IF ts[r.next].t = "*"
             THEN ParseProduct(ts, Parsed(Times(r.v, f.v), f.next), variables)
             ELSE ParseProduct(ts, Parsed(Divide(r.v, f.v), f.next), variables)
    ELSE r

ParseTerm(ts, i, variables) == ParseProduct(ts, ParseUnary(ts, i, variables), variables)

\* The terms after the sum r, left to right.
ParseSum(ts, r, variables) ==
    IF r.ok /\ r.next <= Len(ts) /\ ts[r.next].t \in {"+", "-"}
    THEN LET f == ParseTerm(ts, r.next + 1, variables)
         IN  IF ~f.ok THEN Thrown
             ELSE IF ts[r.next].t = "+"
             THEN ParseSum(ts, Parsed(Plus(r.v, f.v), f.next), variables)
             ELSE ParseSum(ts, Parsed(Minus(r.v, f.v), f.next), variables)
    ELSE r

ParseExpression(ts, i, variables) == ParseSum(ts, ParseTerm(ts, i, variables), variables)

\* new Function(...params, `return ${formula}`)(...args): the value returned,
\* or Thrown.
CallFunction(formula, variables) ==
    LET ts == Tokens(formula, 1)
        r == ParseExpression(ts, 1, variables)
    IN  IF \E i \in 1..Len(variables) : variables[i].name \in ReservedWords THEN Thrown
        ELSE IF r.ok /\ r.next = Len(ts) + 1 THEN r
        ELSE Thrown

\* The decimal digits of a natural number.
RECURSIVE IntText(_)
IntText(n) == IF n < 10 THEN <<Digits[n + 1]>> ELSE IntText(n \div 10) \o <<Digits[(n % 10) + 1]>>

InfinityText == <<"I","n","f","i","n","i","t","y">>

\* The text of hundredths h with the sign.
FixedText(neg, h) ==
    (IF neg THEN <<"-">> ELSE <<>>) \o IntText(h \div 100) \o <<".">>
        \o <<Digits[((h % 100) \div 10) + 1], Digits[(h % 10) + 1]>>

\* Number(v).toFixed(2), v not NaN: the nearest hundredth, the larger one of
\* two equally near.  A value that is not exact and lies half way between two
\* hundredths is, in the program's arithmetic, a little to one side or the
\* other: both texts are outcomes.
toFixed(v) ==
    IF v.k = "inf" THEN {(IF v.neg THEN <<"-">> ELSE <<>>) \o InfinityText}
    ELSE LET a == Abs(v.n)
             up == (200 * a + v.d) \div (2 * v.d)
             half == (200 * a + v.d) % (2 * v.d) = 0
         IN  {FixedText(v.n < 0, h) : h \in (IF half /\ ~v.exact THEN {up - 1, up} ELSE {up})}

\* The try block, reached by a formula that passed the test: the outcomes
\* [value, built].  There is one outcome except in the case described at
\* toFixed, and none for a formula outside the modelled part.
EvaluateWhitelisted(formula, variables) ==
    IF ~Modelled(formula, variables) THEN {}
    ELSE LET r == CallFunction(formula, variables)
         IN  IF ~r.ok \/ r.v.k = "nan" THEN {[value |-> ErrorMarker, built |-> TRUE]}
             ELSE {[value |-> t, built |-> TRUE] : t \in toFixed(r.v)}

\* The function built before the test is looked at.
evaluateFormulaBuildFirst(formula, variables) ==
    IF ~WhitelistTest(formula) THEN {[value |-> ErrorMarker, built |-> TRUE]}
    ELSE EvaluateWhitelisted(formula, variables)

\* evaluateFormula(formula, variables): the outcomes [value, built], built
\* telling whether `new Function` was reached.
evaluateFormula(formula, variables) ==
    IF ~WhitelistTest(formula) THEN {[value |-> ErrorMarker, built |-> FALSE]}
    ELSE EvaluateWhitelisted(formula, variables)

\* One call evaluateFormula(formula, variables), as the calculator's result
\* line makes it.
Evaluate(formula, variables) ==
    /\ \E r \in evaluateFormula(formula, variables) :
           evaluated' = [formula |-> formula, variables |-> variables,
                         value |-> r.value, built |-> r.built]
    /\ last' = [op |-> "evaluate", a |-> <<formula, variables>>]
    /\ UNCHANGED <<widgets, draggingWidget, listeners, now, gesture, pointer>>

-----------------------------------------------------------------------------
(* The calculator's render: variable buttons, result line, insertIntoFormula *)

\* Number(w.score) || 0
NumberOrZero(score) == IF score = NaN THEN 0 ELSE score

\* widgets.filter(w => w.type === 'score' && w.name)
NamedScores(ws) == SelectSeq(ws, LAMBDA w : w.type = "score" /\ w.name # <<>>)

\* Object.fromEntries: the entries es added to the object acc from left to
\* right; a key already there keeps its place and takes the new value.
RECURSIVE FromEntries(_, _)
FromEntries(es, acc) ==
    IF es = <<>> THEN acc
    ELSE LET e == Head(es)
         IN  IF HasKey(acc, e.name)
             THEN FromEntries(Tail(es),
                      [i \in 1..Len(acc) |-> IF acc[i].name = e.name THEN e ELSE acc[i]])
             ELSE FromEntries(Tail(es), Append(acc, e))

\* The variables object the result line passes to evaluateFormula.
RenderVariables(ws) ==
    FromEntries([i \in 1..Len(NamedScores(ws)) |->
                    [name |-> NamedScores(ws)[i].name,
                     value |-> NumberOrZero(NamedScores(ws)[i].score)]], <<>>)

\* The labels of the variable buttons, in their order.
VariableButtons(ws) == [i \in 1..Len(NamedScores(ws)) |-> NamedScores(ws)[i].name]

\* widget.formula || '0'
FormulaOrZero(formula) == IF formula = <<>> THEN <<"0">> ELSE formula

\* The render of the i-th widget, a calculator: its result line calls
\* evaluateFormula on the store of this render.
Render(i) ==
    /\ i \in 1..Len(widgets)
    /\ widgets[i].type = "calculator"
    /\ Evaluate(FormulaOrZero(widgets[i].formula), RenderVariables(widgets))

\* formula.slice(0, cursorPos) + variable + formula.slice(cursorPos)
InsertAt(formula, variable, cursorPos) ==
    SubSeq(formula, 1, cursorPos) \o variable \o SubSeq(formula, cursorPos + 1, Len(formula))

\* insertIntoFormula(widgets[i].id, b): a click on the b-th variable button
\* of the i-th widget, a calculator, with the textarea's cursor at cursorPos.
InsertIntoFormula(i, b, cursorPos) ==
    /\ gesture = "idle"
    /\ i \in 1..Len(widgets)
    /\ widgets[i].type = "calculator"
    /\ b \in 1..Len(VariableButtons(widgets))
    /\ cursorPos \in 0..Len(widgets[i].formula)
    /\ widgets' = SetFormula(widgets, widgets[i].id,
                      InsertAt(widgets[i].formula, VariableButtons(widgets)[b], cursorPos))
    /\ last' = [op |-> "insertIntoFormula", a |-> <<i, b, cursorPos>>]
    /\ UNCHANGED <<draggingWidget, listeners, now, gesture, evaluated, pointer>>

-----------------------------------------------------------------------------
(* Inputs *)

\* Places of the pointer inside a dragged element.
Offsets == {20}

\* Pointer places along the grid's width and height, from the grid's origin:
\* inside the grid and past its right edge; above its top edge.
PointerXs == {250, 950}

PointerYs == {-30}

\* Math.random() draws: the lowest, a middle one and the highest.
Draws == {0, RandomUnits \div 2, RandomUnits - 1}

\* Pointer places of the resize events.
ResizeStarts == {0}

ResizeXs == {-900, 250}

ResizeYs == {-1000}

-----------------------------------------------------------------------------
(* The layout specification: drag, drop, resize and delete on the grid *)

Next ==
    \/ \E k \in 1..Len(libraryItems), ox \in Offsets, oy \in Offsets : DragStartNew(k, ox, oy)
    \/ \E i \in 1..Len(widgets), ox \in Offsets, oy \in Offsets : DragStartWidget(i, ox, oy)
    \/ ForeignDragStart
    \/ \E px \in PointerXs, py \in PointerYs : DragOver(px, py)
    \/ \E px \in PointerXs, py \in PointerYs :
          Drop(px, py, 0, 0) /\ Len(widgets') <= MaxWidgets /\ now' <= MaxCreated + 1
    \/ DragEnd
    \/ \E i \in 1..Len(widgets), sx \in ResizeStarts \cup ResizeXs, sy \in ResizeStarts \cup ResizeYs :
          /\ gesture = "idle" => (sx \in ResizeStarts /\ sy \in ResizeStarts)
          /\ StartResize(i, sx, sy)
          /\ Len(listeners') <= MaxListeners
    \/ \E cx \in ResizeXs, cy \in ResizeYs : MouseMove(cx, cy)
    \/ MouseUp
    \/ \E i \in 1..Len(widgets) : Delete(i)

Spec == Init /\ [][Next]_vars

-----------------------------------------------------------------------------
(* The field specification: widgets are created and deleted, and their
   names, scores and formulas edited *)

\* Typed names: empty, a word of SIMPLE_NAMES, and text the sanitizer changes.
NameTexts == { <<>>, <<"c","a","t">>, <<"D","o","g","!">> }

\* Values of the score input: empty, below the range, above it, inside it.
ScoreTexts == { <<>>, <<"-","5">>, <<"1","5","0">>, <<"4","2">> }

FormulaTexts == { <<"c","a","t","+","1">> }

FieldPointerXs == {250, 450, 650}

NextFields ==
    \/ \E k \in 1..Len(libraryItems), ox \in Offsets, oy \in Offsets : DragStartNew(k, ox, oy)
    \/ \E px \in FieldPointerXs, py \in PointerYs, u \in {0, RandomUnits - 1} :
          Drop(px, py, 0, u) /\ Len(widgets') <= MaxWidgets /\ now' <= MaxCreated + 1
    \/ \E i \in 1..Len(widgets), text \in NameTexts : EditName(i, text)
    \/ \E i \in 1..Len(widgets), text \in ScoreTexts : EditScore(i, text)
    \/ \E i \in 1..Len(widgets), u \in {RandomUnits \div 2} : RandomizeScore(i, u)
    \/ \E i \in 1..Len(widgets), text \in FormulaTexts : EditFormula(i, text)
    \/ \E i \in 1..Len(widgets) : Delete(i)

SpecFields == Init /\ [][NextFields]_vars

-----------------------------------------------------------------------------
(* The full-list specification: it starts from the grid on which one score
   item was dropped for every word of SIMPLE_NAMES *)

\* Where the k-th of these drops was made: four widgets a row, from the
\* top-left cell on.
FillPointerX(k) == 2 * CELL_SIZE * ((k - 1) % 4) + 50

FillPointerY(k) == CELL_SIZE * ((k - 1) \div 4) + 50

\* The store after the first k of these drops, the clock reading k at the
\* k-th and every Math.random() draw 0.
RECURSIVE FilledStore(_)
FilledStore(k) ==
    IF k = 0 THEN <<>>
    ELSE DropStore(FilledStore(k - 1), Some(Dragging(ScoreItem, TRUE, 20, 20)),
                   FillPointerX(k), FillPointerY(k), k, 0, 0)

InitFull ==
    /\ widgets = FilledStore(Len(SIMPLE_NAMES))
    /\ draggingWidget = Null
    /\ listeners = <<>>
    /\ now = Len(SIMPLE_NAMES) + 1
    /\ gesture = "idle"
    /\ pointer = Null
    /\ evaluated = NoEvaluation
    /\ last = [op |-> "init", a |-> <<>>]

\* Pointer places of the drops: two free cells of the fourth row, and a
\* cell of the first row.
FullPointerXs == {50, 250}

FullPointerYs == {50, 350}

FullNameTexts == { <<"x">>, <<"c","a","t">> }

NextFull ==
    \/ \E k \in 1..Len(libraryItems), ox \in Offsets, oy \in Offsets : DragStartNew(k, ox, oy)
    \/ \E px \in FullPointerXs, py \in FullPointerYs, u \in {0, RandomUnits - 1} :
          Drop(px, py, u, 0) /\ Len(widgets') <= MaxWidgetsFull
    \/ \E i \in 1..Len(widgets), text \in FullNameTexts : EditName(i, text)

SpecFull == InitFull /\ [][NextFull]_vars

-----------------------------------------------------------------------------
(* The formula evaluator on its own: one call, on every formula over a small
   alphabet up to MaxFormulaLen and a few longer ones, against a few
   mappings. *)

FormulaAlphabet == {"a", "0", "2", "+", "/", "(", ")", " ", ";", "_"}

FormulaSamples ==
    { <<"a", " ", "+", " ", "b">>,
      <<"a", " ", "/", " ", "0">>,
      <<"a", ";", " ", "a", "l", "e", "r", "t", "(", "1", ")">>,
      <<"a", " ", "+", " ", "b", "\"">>,
      <<"A", "*", "(", "b", "-", "2", ")", "\n", "=", "1">> }

FormulaInputs ==
    FormulaSamples \cup UNION {[1..n -> FormulaAlphabet] : n \in 0..MaxFormulaLen}

VariableInputs ==
    { <<>>,
      <<[name |-> <<"a">>, value |-> 10]>>,
      <<[name |-> <<"a">>, value |-> 10], [name |-> <<"b">>, value |-> 5]>>,
      <<[name |-> <<"d", "o">>, value |-> 1]>> }

\* The arguments are drawn, the call not yet made.
InitFormula ==
    /\ widgets = <<>>
    /\ draggingWidget = Null
    /\ listeners = <<>>
    /\ now = 1
    /\ gesture = "idle"
    /\ pointer = Null
    /\ \E formula \in FormulaInputs, variables \in VariableInputs :
           evaluated = [formula |-> formula, variables |-> variables,
                        value |-> <<>>, built |-> FALSE]
    /\ last = [op |-> "init", a |-> <<>>]

NextFormula ==
    /\ last.op = "init"
    /\ Evaluate(evaluated.formula, evaluated.variables)

SpecFormula == InitFormula /\ [][NextFormula]_vars

-----------------------------------------------------------------------------
(* The clock specification: the layout's drag and drop and delete, with a
   wall clock that may be set back between two drops *)

NextClock ==
    \/ \E k \in 1..Len(libraryItems), ox \in Offsets, oy \in Offsets : DragStartNew(k, ox, oy)
    \/ \E i \in 1..Len(widgets), ox \in Offsets, oy \in Offsets : DragStartWidget(i, ox, oy)
    \/ \E px \in PointerXs, py \in PointerYs : DragOver(px, py)
    \/ \E px \in PointerXs, py \in PointerYs :
          Drop(px, py, 0, 0) /\ Len(widgets') <= MaxWidgets /\ now' <= MaxCreated + 1
    \/ DragEnd
    \/ \E i \in 1..Len(widgets) : Delete(i)
    \/ \E t \in 1..MaxCreated : ClockSetBack(t)

SpecClock == Init /\ [][NextClock]_vars

-----------------------------------------------------------------------------
(* The render specification: widgets are created, edited and deleted, and
   the calculators rendered *)

RenderNameTexts == { <<>>, <<"d","o","g">> }

RenderScoreTexts == { <<>>, <<"4","2">> }

RenderFormulaTexts == { <<"c","a","t","+">> }

RenderPointerXs == {250, 450}

NextRender ==
    \/ \E k \in 1..Len(libraryItems), ox \in Offsets, oy \in Offsets : DragStartNew(k, ox, oy)
    \/ \E px \in RenderPointerXs, py \in PointerYs :
          Drop(px, py, 0, 0) /\ Len(widgets') <= MaxWidgets /\ now' <= MaxCreated + 1
    \/ \E i \in 1..Len(widgets), text \in RenderNameTexts : EditName(i, text)
    \/ \E i \in 1..Len(widgets), text \in RenderScoreTexts : EditScore(i, text)
    \/ \E i \in 1..Len(widgets), u \in {RandomUnits \div 2} : RandomizeScore(i, u)
    \/ \E i \in 1..Len(widgets), text \in RenderFormulaTexts : EditFormula(i, text)
    \/ \E i \in 1..Len(widgets), b \in 1..MaxWidgets :
          /\ InsertIntoFormula(i, b, Len(widgets[i].formula))
          /\ Len(widgets'[i].formula) <= MaxInsertedLen
    \/ \E i \in 1..Len(widgets) : Delete(i)
    \/ \E i \in 1..Len(widgets) : Render(i)

SpecRender == Init /\ [][NextRender]_vars

-----------------------------------------------------------------------------
(* Notions the properties are stated with *)

\* A and B overlap, as cell rectangles.
Overlap(A, B) ==
    /\ A.x < B.x + B.width
    /\ A.x + A.width > B.x
    /\ A.y < B.y + B.height
    /\ A.y + A.height > B.y

\* clamp(v, lo, hi)
Clamp(v, lo, hi) == IF v < lo THEN lo ELSE IF v > hi THEN hi ELSE v

\* The cell rectangle a drag-over or drop at (px, py) aims at for the
\* dragging widget d: floor((pointer - offset) / CELL_SIZE), clamped to the grid.
TargetRect(d, px, py) ==
    [x |-> Clamp((px - d.offsetX) \div CELL_SIZE, 0, GRID_COLS - d.width),
     y |-> Clamp((py - d.offsetY) \div CELL_SIZE, 0, GRID_ROWS - d.height),
     width |-> d.width, height |-> d.height]

Indices == 1..Len(widgets)

-----------------------------------------------------------------------------
(* C1: in every reachable state no two distinct widgets of the store have
   overlapping cell rectangles. *)
C1_NoTwoWidgetsOverlap ==
    \A i, j \in Indices : i # j => ~Overlap(widgets[i], widgets[j])

(* C2: in every reachable state every widget of the store lies inside the
   grid: x >= 0, y >= 0, x + width <= GRID_COLS and y + height <= GRID_ROWS. *)
C2_EveryWidgetInsideGrid ==
    \A i \in Indices :
        /\ widgets[i].x >= 0
        /\ widgets[i].y >= 0
        /\ widgets[i].x + widgets[i].width <= GRID_COLS
        /\ widgets[i].y + widgets[i].height <= GRID_ROWS

(* C6: a drop of a new (library) item whose clamped target rectangle
   overlaps a widget of the store leaves the store as it was and clears the
   dragging state. *)
C6_OverlappingNewDropIsDiscarded ==
    [][ ( /\ last'.op = "drop"
          /\ draggingWidget # Null
          /\ draggingWidget[1].isNew
          /\ \E i \in Indices :
                Overlap(TargetRect(draggingWidget[1], last'.a[1], last'.a[2]), widgets[i]) )
        => (widgets' = widgets /\ draggingWidget' = Null) ]_vars

\* A new item was dropped onto a widget of the store, and the store has its
\* length of before.
C6_Witness ==
    /\ last.op = "drop"
    /\ last.dw # Null
    /\ last.dw[1].isNew
    /\ Len(widgets) = last.n
    /\ \E i \in Indices : Overlap(TargetRect(last.dw[1], last.a[1], last.a[2]), widgets[i])
    /\ draggingWidget = Null

(* C9: every calculator widget of the store has width 4, height 2, the
   empty name and score 0 after every step, and a start-resize on a
   calculator widget changes neither the store nor the registered listeners. *)
C9_CalculatorsAreFixed ==
    [][ /\ \A i \in 1..Len(widgets') :
              widgets'[i].type = "calculator" =>
                  /\ widgets'[i].width = 4
                  /\ widgets'[i].height = 2
                  /\ widgets'[i].name = <<>>
                  /\ widgets'[i].score = 0
        /\ ( /\ last'.op = "startResize"
             /\ last'.a[1] \in Indices
             /\ widgets[last'.a[1]].type = "calculator" )
           => (widgets' = widgets /\ listeners' = listeners) ]_vars

\* A start-resize was delivered for a calculator and no listener is registered;
\* and a mouse-move was delivered with a calculator in the store.
C9_Witness ==
    /\ last.op = "startResize"
    /\ widgets[last.a[1]].type = "calculator"
    /\ listeners = <<>>

\* The widget w as a resize gesture l leaves it on a mouse-move at (cx, cy):
\* width clamp(startWidth + dx, 2, GRID_COLS - x), height
\* clamp(startHeight + dy, 1, GRID_ROWS - y), for the cell deltas
\* dx = floor((cx - startX) / CELL_SIZE), dy = floor((cy - startY) / CELL_SIZE).
Resized(w, l, cx, cy) ==
    [w EXCEPT !.width = Clamp(l.startWidth + ((cx - l.startX) \div CELL_SIZE), 2, GRID_COLS - l.x),
              !.height = Clamp(l.startHeight + ((cy - l.startY) \div CELL_SIZE), 1, GRID_ROWS - l.y)]

\* The registered gestures on the widget with this id, by place of registration.
GesturesOn(id) == {k \in 1..Len(listeners) : listeners[k].id = id}

Latest(ks) == CHOOSE k \in ks : \A m \in ks : m <= k

(* C8 as stated: for every registered resize gesture, a mouse-move sets the
   gesture's widget to the width and height clamped from the gesture's start
   values, and changes no other field of any widget. *)
C8_EveryGestureSetsItsClampedSize ==
    [][ last'.op = "mouseMove" =>
          \A k \in 1..Len(listeners) :
              /\ Len(widgets') = Len(widgets)
              /\ \A i \in Indices :
                    widgets'[i] = IF widgets[i].id = listeners[k].id
                                  THEN Resized(widgets[i], listeners[k], last'.a[1], last'.a[2])
                                  ELSE widgets[i] ]_vars

(* C8 amended: a mouse-move sets every widget that has a registered resize
   gesture to the width and height clamped from the start values of the
   gesture registered last on it (so its width is in 2 .. GRID_COLS - x and
   its height in 1 .. GRID_ROWS - y), changes no other field of it, and
   changes no widget without a registered gesture. *)
C8_LatestGestureSetsItsClampedSize ==
    [][ last'.op = "mouseMove" =>
          /\ Len(widgets') = Len(widgets)
          /\ \A i \in Indices :
                LET ks == GesturesOn(widgets[i].id)
                IN  IF ks = {} THEN widgets'[i] = widgets[i]
                    ELSE LET l == listeners[Latest(ks)]
                         IN  /\ widgets'[i] = Resized(widgets[i], l, last'.a[1], last'.a[2])
                             /\ widgets'[i].width \in 2..(GRID_COLS - l.x)
                             /\ widgets'[i].height \in 1..(GRID_ROWS - l.y) ]_vars

\* A mouse-move with a negative cell delta was delivered to a gesture that
\* started wider than the minimum, and its widget has the minimum width; the
\* store holds a second widget.
C8_Witness ==
    /\ last.op = "mouseMove"
    /\ Len(widgets) > 1
    /\ \E k \in 1..Len(listeners), i \in Indices :
          /\ widgets[i].id = listeners[k].id
          /\ listeners[k].startWidth > 2
          /\ last.a[1] < listeners[k].startX
          /\ widgets[i].width = 2

(* C4: in every reachable state every score widget's score is an integer in
   0 .. 100, whatever was typed into the score input. *)
C4_EveryScoreInRange ==
    \A i \in Indices : widgets[i].type = "score" => widgets[i].score \in 0..100

\* The text lowercased, with every character outside a-z removed.
RECURSIVE Sanitized(_)
Sanitized(text) ==
    IF text = <<>> THEN <<>>
    ELSE LET c == Head(text)
             kept == IF c \in Range(LowerLetters) THEN <<c>>
                     ELSE IF \E k \in 1..26 : UpperLetters[k] = c
                          THEN <<LowerLetters[CHOOSE k \in 1..26 : UpperLetters[k] = c]>>
                          ELSE <<>>
         IN  kept \o Sanitized(Tail(text))

(* C5: an edit-name on widget W whose sanitized text is the name of some
   other widget of the store leaves the whole store unchanged; when no other
   widget has it (W itself is not compared), W's name becomes the sanitized
   text and nothing else changes. *)
C5_NameOfAnotherWidgetIsRejected ==
    [][ last'.op = "editName" =>
          LET i == last'.a[1]
              name == Sanitized(last'.a[2])
          IN  IF \E j \in Indices : j # i /\ widgets[j].name = name
              THEN widgets' = widgets
              ELSE widgets' = [widgets EXCEPT ![i].name = name] ]_vars

\* An edit-name was delivered whose text differs from its sanitized form,
\* which is the non-empty name of another widget; and the edited widget has
\* another name.
C5_Witness ==
    /\ last.op = "editName"
    /\ Sanitized(last.a[2]) # last.a[2]
    /\ Sanitized(last.a[2]) # <<>>
    /\ \E j \in Indices : j # last.a[1] /\ widgets[j].name = Sanitized(last.a[2])
    /\ widgets[last.a[1]].name # Sanitized(last.a[2])

(* C3: in every reachable state no two distinct score widgets have the same
   non-empty name. *)
C3_ScoreNamesAreUnique ==
    \A i, j \in Indices :
        ( /\ i # j
          /\ widgets[i].type = "score"
          /\ widgets[j].type = "score"
          /\ widgets[i].name # <<>> )
        => widgets[i].name # widgets[j].name

(* C7: a drop of a new score item whose clamped target rectangle overlaps no
   widget of the store appends exactly one widget and leaves the others as
   they were; the new widget is a score widget at the clamped target cell,
   2 wide and 1 high, with a score in 0 .. 100 and a name no widget already
   in the store has. *)
C7_NewScoreDropAppendsOneFreshWidget ==
    [][ ( /\ last'.op = "drop"
          /\ draggingWidget # Null
          /\ draggingWidget[1].isNew
          /\ draggingWidget[1].type = "score"
          /\ \A i \in Indices :
                ~Overlap(TargetRect(draggingWidget[1], last'.a[1], last'.a[2]), widgets[i]) )
        => LET n == Len(widgets)
               t == TargetRect(draggingWidget[1], last'.a[1], last'.a[2])
           IN  /\ Len(widgets') = n + 1
               /\ SubSeq(widgets', 1, n) = widgets
               /\ widgets'[n + 1].type = "score"
               /\ widgets'[n + 1].x = t.x
               /\ widgets'[n + 1].y = t.y
               /\ widgets'[n + 1].width = 2
               /\ widgets'[n + 1].height = 1
               /\ widgets'[n + 1].score \in 0..100
               /\ \A i \in Indices : widgets[i].name # widgets'[n + 1].name ]_vars

-----------------------------------------------------------------------------
(* C10: a formula that contains a character other than a letter, a digit,
   whitespace, or one of + - * / ( ) . evaluates to 'Error', and no function
   is built or called for it, whatever the variable mapping. *)

OutsideWhitelist(c) ==
    /\ c \notin Range(LowerLetters) \cup Range(UpperLetters) \cup Range(Digits)
    /\ c \notin {" ", "\t", "\n"}
    /\ c \notin {"+", "-", "*", "/", "(", ")", "."}

HasCharOutsideWhitelist(formula) ==
    \E i \in 1..Len(formula) : OutsideWhitelist(formula[i])

C10_DisallowedCharacterGivesErrorUnbuilt ==
    (last.op = "evaluate" /\ HasCharOutsideWhitelist(evaluated.formula))
        => (evaluated.value = ErrorMarker /\ ~evaluated.built)

\* The formula "a; alert(1)" was evaluated with a bound: 'Error', nothing built.
C10_Witness ==
    /\ last.op = "evaluate"
    /\ evaluated.formula = <<"a", ";", " ", "a", "l", "e", "r", "t", "(", "1", ")">>
    /\ Len(evaluated.variables) > 0
    /\ evaluated.value = ErrorMarker
    /\ ~evaluated.built

-----------------------------------------------------------------------------
(* C11: a formula whose value is not a finite number is reported as 'Error',
   never as a number: no evaluation returns the text of an infinity, and
   "a / 0" with a bound to 10 returns 'Error'. *)

C11_NonFiniteValueGivesError ==
    last.op = "evaluate" =>
        /\ evaluated.value \notin {InfinityText, <<"-">> \o InfinityText}
        /\ (/\ evaluated.formula = <<"a", " ", "/", " ", "0">>
            /\ evaluated.variables = <<[name |-> <<"a">>, value |-> 10]>>)
               => evaluated.value = ErrorMarker

-----------------------------------------------------------------------------
(* C12: a whitelisted formula that is a well-formed arithmetic expression
   over integer literals, + - * /, parentheses and names that are all keys
   of the mapping evaluates to its arithmetic value under the mapping,
   written with exactly two decimals ("a + b" with a = 10, b = 5 gives
   "15.00"); a formula that names a variable absent from the mapping
   evaluates to 'Error'. *)

\* The reading of the formula as an arithmetic expression under the mapping.
Reading(formula, variables) == ParseExpression(Tokens(formula, 1), 1, variables)

\* The formula is an arithmetic expression whose names are all bound and
\* which has a finite value.
WellFormed(formula, variables) ==
    LET r == Reading(formula, variables)
    IN  /\ WhitelistTest(formula)
        /\ Modelled(formula, variables)
        /\ r.ok /\ r.next = Len(Tokens(formula, 1)) + 1
        /\ r.v.k = "num"

\* The texts with two decimals nearest to the rational n / d.
TwoDecimalTexts(n, d) ==
    LET near == {h \in 0..(100 * Abs(n) + 1) :
                     Abs(200 * Abs(n) - 2 * h * d) <= d}
    IN  {FixedText(n < 0, h) : h \in near} \cup {FixedText(FALSE, h) : h \in near \cap {0}}

NamesAbsentVariable(formula, variables) ==
    LET ts == Tokens(formula, 1)
    IN  /\ WhitelistTest(formula)
        /\ \E i \in 1..Len(ts) : ts[i].t = "id" /\ ~HasKey(variables, ts[i].name)

C12_WellFormedFormulaGivesItsValue ==
    last.op = "evaluate" =>
        LET f == evaluated.formula
            m == evaluated.variables
        IN  /\ WellFormed(f, m) =>
                evaluated.value \in TwoDecimalTexts(Reading(f, m).v.n, Reading(f, m).v.d)
            /\ NamesAbsentVariable(f, m) => evaluated.value = ErrorMarker
            /\ (/\ f = <<"a", " ", "+", " ", "b">>
                /\ m = <<[name |-> <<"a">>, value |-> 10], [name |-> <<"b">>, value |-> 5]>>)
                   => evaluated.value = <<"1", "5", ".", "0", "0">>

-----------------------------------------------------------------------------
(* C13: the dragging-widget state is non-empty only while a drag gesture
   started by handleDragStart is in progress: it is empty again once the
   gesture has ended, by a drop on the grid or by a drag-end without one.
   Hence a drag-over or drop that arrives after the gesture has ended (with
   a drag the component did not start) neither moves nor creates a widget. *)

C13_DraggingOnlyDuringGesture ==
    /\ [](gesture # "drag" => draggingWidget = Null)
    /\ [][(gesture = "foreign" /\ last'.op \in {"dragOver", "drop"})
              => widgets' = widgets]_vars

-----------------------------------------------------------------------------
(* C14: a mouse-up unregisters every listener pair a start-resize has
   registered, however many start-resize events came before it and wherever
   the pointer is; with no button down no listener is registered, and a
   mouse-move then changes no widget. *)

C14_MouseUpRemovesEveryListener ==
    /\ [][last'.op = "mouseUp" => listeners' = <<>>]_vars
    /\ [](gesture = "idle" => listeners = <<>>)
    /\ [][(gesture = "idle" /\ last'.op = "mouseMove") => widgets' = widgets]_vars

\* The mouse has moved with no button down, after a resize that widened a
\* score widget.
C14_Witness ==
    /\ last.op = "mouseMove"
    /\ gesture = "idle"
    /\ listeners = <<>>
    /\ \E i \in Indices : widgets[i].type = "score" /\ widgets[i].width > MinWidth

-----------------------------------------------------------------------------
(* C15: in every reachable state no two widgets of the store have the same
   id, also when two items are dropped while Date.now() returns the same
   value; and no action changes the id of a widget of the store: a step
   that is not a delete keeps every widget's id at its place in the store,
   and a delete leaves only ids that were there. *)

C15_IdsUniqueAndStable ==
    /\ [](\A i, j \in Indices : i # j => widgets[i].id # widgets[j].id)
    /\ [][IF last'.op = "delete"
          THEN \A j \in 1..Len(widgets') : \E i \in Indices : widgets'[j].id = widgets[i].id
          ELSE /\ Len(widgets') >= Len(widgets)
               /\ \A i \in Indices : widgets'[i].id = widgets[i].id]_vars

-----------------------------------------------------------------------------
(* C16: a drag-over changes the store only when a drag of an existing widget
   (not a new item) is in progress and the clamped candidate rectangle
   overlaps no widget of another id; then the dragged widget's x and y
   become the candidate cell and nothing else changes.  When the candidate
   overlaps another widget, or the dragged item is new, or no drag of a
   widget is in progress, the store is left as it is. *)

\* The candidate of the dragging widget d at (px, py) overlaps no widget of
\* another id.
CandidateIsFree(d, px, py) ==
    \A i \in Indices :
        widgets[i].id # d.id => ~Overlap(TargetRect(d, px, py), widgets[i])

C16_DragOverMovesOnlyTheDraggedWidget ==
    [][ last'.op = "dragOver" =>
          LET px == last'.a[1]
              py == last'.a[2]
          IN  IF /\ gesture = "drag"
                 /\ draggingWidget # Null
                 /\ ~draggingWidget[1].isNew
                 /\ CandidateIsFree(draggingWidget[1], px, py)
              THEN /\ Len(widgets') = Len(widgets)
                   /\ \A i \in Indices :
                         widgets'[i] =
                             IF widgets[i].id = draggingWidget[1].id
                             THEN [widgets[i] EXCEPT
                                      !.x = TargetRect(draggingWidget[1], px, py).x,
                                      !.y = TargetRect(draggingWidget[1], px, py).y]
                             ELSE widgets[i]
              ELSE widgets' = widgets ]_vars

-----------------------------------------------------------------------------
(* C17: a drop of an existing widget (not a new item) leaves the store as it
   is and empties the dragging state, whatever cell the pointer is over at
   the drop: the widget stays where the drag-overs of the gesture left it. *)

C17_DropOfExistingWidgetChangesNothing ==
    [][ ( /\ last'.op = "drop"
          /\ draggingWidget # Null
          /\ ~draggingWidget[1].isNew )
        => (widgets' = widgets /\ draggingWidget' = Null) ]_vars

\* A widget of the store was dropped with the pointer over a cell where it
\* would overlap another widget, and it is not at that cell.
C17_Witness ==
    /\ last.op = "drop"
    /\ last.dw # Null
    /\ ~last.dw[1].isNew
    /\ draggingWidget = Null
    /\ \E i, j \in Indices :
          /\ widgets[i].id = last.dw[1].id
          /\ widgets[j].id # last.dw[1].id
          /\ Overlap(TargetRect(last.dw[1], last.a[1], last.a[2]), widgets[j])
          /\ widgets[i].x # TargetRect(last.dw[1], last.a[1], last.a[2]).x

-----------------------------------------------------------------------------
(* C18: resize is the only action that can introduce an overlap: from a
   reachable state in which no two widgets overlap, a drag-over, a drop, a
   delete, or an edit of a name, a score or a formula leads to a state in
   which no two widgets overlap. *)

NoOverlapIn(ws) ==
    \A i, j \in 1..Len(ws) : i # j => ~Overlap(ws[i], ws[j])

C18_OnlyResizeIntroducesOverlap ==
    [][ ( /\ NoOverlapIn(widgets)
          /\ last'.op \in {"dragOver", "drop", "delete", "editName", "editScore",
                           "randomizeScore", "editFormula"} )
        => NoOverlapIn(widgets') ]_vars

-----------------------------------------------------------------------------
(* C19: the empty name is exempt from uniqueness: an edit-name on a score
   widget whose sanitized text is empty is accepted, and the widget's name
   becomes empty, also when another widget of the store (a calculator, an
   unnamed score widget) has the empty name. *)

C19_EmptyNameIsAlwaysAccepted ==
    [][ (last'.op = "editName" /\ Sanitized(last'.a[2]) = <<>>)
        => widgets' = [widgets EXCEPT ![last'.a[1]].name = <<>>] ]_vars

-----------------------------------------------------------------------------
(* C20: the variables a calculator's evaluation is given, and the variable
   buttons it offers, are exactly the non-empty names of the score widgets
   of the store at that time, each bound to that widget's score then:
   calculators, unnamed score widgets and deleted widgets give no variable,
   and an evaluation after an edit or a delete uses the store as the edit or
   delete left it. *)

\* The score widgets of the store that have a name.
NamedScoreIndices == {i \in Indices : widgets[i].type = "score" /\ widgets[i].name # <<>>}

C20_VariablesAreTheNamedScores ==
    /\ [][ last'.op = "evaluate" =>
             /\ {<<v.name, v.value>> : v \in Range(evaluated'.variables)}
                    = {<<widgets[i].name, widgets[i].score>> : i \in NamedScoreIndices}
             /\ Len(evaluated'.variables) = Cardinality(NamedScoreIndices) ]_vars
    /\ [][ last'.op = "insertIntoFormula" =>
             \E i \in NamedScoreIndices :
                 widgets' = [widgets EXCEPT ![last'.a[1]].formula =
                                InsertAt(@, widgets[i].name, last'.a[3])] ]_vars

====
